---- MODULE Spec2Model ----
(***************************************************************************)
(* A model of diverse_seq/distance.py: k-mer extraction (get_kmers),       *)
(* k-mer hashing (hash_kmer, reverse_complement), bottom sketches          *)
(* (mash_sketch), the sketch distance (compute_mash_distance), and the     *)
(* dvs_dist app with its two pairwise loops (compute_mash_distances,       *)
(* euclidean_distances).                                                   *)
(*                                                                         *)
(* Python lists are TLA+ sequences: Python index i is TLA+ index i + 1.    *)
(* An optional argument is <<>> for None and <<v>> for the value v.        *)
(***************************************************************************)
EXTENDS Integers, Sequences, FiniteSets, TLC

VARIABLES
    pc,                 \* position of the running function
    exc,                \* name of the exception raised, "" when none
    \* get_kmers
    seq, k, num_states, kmers, skip_until, i,
    \* hash_kmer
    kmer, mash_canonical, kmer_hash,
    \* mash_sketch
    hash_stream, kmer_hashes, heap, sketch_size, sketch,
    \* compute_mash_distance
    left_sketch, right_sketch, left_index, right_index,
    intersection_size, union_size, result,
    \* dvs_dist, compute_mash_distances, mash_sketches, euclidean_distances
    args,               \* the arguments of dvs_dist.__init__
    self,               \* the attributes __init__ sets, <<>> before it ran
    seq_arrays, sketches, kmer_seqs, distances, j,
    progress,           \* the Progress of the `with` statements
    sketch_progress,    \* the Progress local to mash_sketches
    computed            \* history: the pairs (i, j) whose distance was computed

vars == <<pc, exc, seq, k, num_states, kmers, skip_until, i,
          kmer, mash_canonical, kmer_hash,
          hash_stream, kmer_hashes, heap, sketch_size, sketch,
          left_sketch, right_sketch, left_index, right_index,
          intersection_size, union_size, result,
          args, self, seq_arrays, sketches, kmer_seqs, distances, j,
          progress, sketch_progress, computed>>

kmersVars == <<seq, num_states, kmers, skip_until, i>>
hashVars == <<kmer, mash_canonical, kmer_hash>>
sketchVars == <<hash_stream, kmer_hashes, heap, sketch>>
distVars == <<left_sketch, right_sketch, left_index, right_index,
              intersection_size, union_size, result>>

(***************************************************************************)
(* Bounds of the model.                                                    *)
(***************************************************************************)
MaxK == 2
MaxSketch == 3
MaxHash == 2
MaxSeqLen == 4
MaxSymbol == 2
MaxKmerLen == 3
MaxStream == 4
MaxSeqs == 3
HashWidth == 8

HashVals == (0 - MaxHash)..MaxHash

Min(a, b) == IF a < b THEN a ELSE b

RECURSIVE Gcd(_, _)
Gcd(a, b) == IF b = 0 THEN a ELSE Gcd(b, a % b)

Range(s) == {s[n] : n \in 1..Len(s)}

\* The sequences over S of length at most n.
RECURSIVE SeqsUpTo(_, _)
SeqsUpTo(S, n) ==
    IF n = 0 THEN {<<>>}
    ELSE LET shorter == SeqsUpTo(S, n - 1)
         IN shorter \cup {Append(s, x) : s \in {t \in shorter : Len(t) = n - 1}, x \in S}

IsAscending(s) == \A n \in 1..(Len(s) - 1) : s[n] < s[n + 1]

\* The strictly ascending lists of at most n hash values: the BottomSketch type.
BottomSketches(n) == {s \in SeqsUpTo(HashVals, n) : IsAscending(s)}

KmersIdle == seq = <<>> /\ num_states = 0 /\ kmers = <<>> /\ skip_until = 0 /\ i = 0
HashIdle == kmer = <<>> /\ mash_canonical = FALSE /\ kmer_hash = 0
SketchIdle == hash_stream = <<>> /\ kmer_hashes = {} /\ heap = <<>> /\ sketch = <<>>
appVars == <<args, self, seq_arrays, sketches, kmer_seqs, distances, j,
             progress, sketch_progress, computed>>

\* A Progress that was never created.
NoProgress == [disable |-> TRUE, tasks |-> <<>>]

AppIdle ==
    /\ args = <<>> /\ self = <<>>
    /\ seq_arrays = <<>> /\ sketches = <<>> /\ kmer_seqs = <<>>
    /\ distances = <<>> /\ j = 0
    /\ progress = NoProgress /\ sketch_progress = NoProgress
    /\ computed = <<>>

DistIdle ==
    /\ left_sketch = <<>> /\ right_sketch = <<>>
    /\ left_index = 0 /\ right_index = 0
    /\ intersection_size = 0 /\ union_size = 0
    /\ result = <<>>

(***************************************************************************)
(* Float results.  A distance is 0.0, 1.0, the mash value                  *)
(* -ln(2j / (1 + j)) / k for a jaccard j = p/q in lowest terms, or the     *)
(* euclidean value sqrt(p).  Equal records are equal floats.               *)
(***************************************************************************)
Zero == [tag |-> "0.0", p |-> 0, q |-> 1, k |-> 0]
One == [tag |-> "1.0", p |-> 1, q |-> 1, k |-> 0]

\* floor(1000 * e^n) for n = 1..5
ExpMilli == <<2718, 7389, 20085, 54598, 148413>>

\* lines 431-434: distance = -ln(2j/(1+j)) / k with j = isz/usz, capped at 1.0.
\* distance > 1  <=>  2*isz / (usz + isz) < e^-k  <=>  2 * isz * e^k < usz + isz.
LogDistance(isz, usz, kk) ==
    LET g == Gcd(isz, usz)
    IN IF 2 * isz * ExpMilli[kk] < 1000 * (usz + isz)
       THEN One
       ELSE [tag |-> "ln", p |-> isz \div g, q |-> usz \div g, k |-> kk]

(***************************************************************************)
(* compute_mash_distance                                                   *)
(***************************************************************************)
\* lines 398-402
MashStart == [left_index |-> 0, right_index |-> 0,
              intersection_size |-> 0, union_size |-> 0]

\* lines 403-407
MashWhile(L, R, s, c) ==
    /\ c.union_size < s
    /\ c.left_index < Len(L)
    /\ c.right_index < Len(R)

\* A merge step whose right-smaller branch also counts an intersection.
MashBodyCountsRight(L, R, c) ==
    LET left == L[c.left_index + 1]
        right == R[c.right_index + 1]
        moved == IF left < right
                 THEN [c EXCEPT !.left_index = @ + 1]
                 ELSE IF right < left
                 THEN [c EXCEPT !.right_index = @ + 1, !.intersection_size = @ + 1]
                 ELSE [c EXCEPT !.left_index = @ + 1, !.right_index = @ + 1,
                                !.intersection_size = @ + 1]
    IN [moved EXCEPT !.union_size = @ + 1]

\* lines 408-417
MashBody(L, R, c) ==
    LET left == L[c.left_index + 1]
        right == R[c.right_index + 1]
        moved == IF left < right
                 THEN [c EXCEPT !.left_index = @ + 1]
                 ELSE IF right < left
                 THEN [c EXCEPT !.right_index = @ + 1]
                 ELSE [c EXCEPT !.left_index = @ + 1, !.right_index = @ + 1,
                                !.intersection_size = @ + 1]
    IN [moved EXCEPT !.union_size = @ + 1]

\* An underfull adjustment that forgets the cap at sketch_size.
MashUnderfullNoCap(L, R, s, c) ==
    IF c.union_size < s
    THEN LET a == IF c.left_index < Len(L)
                  THEN c.union_size + (Len(L) - c.left_index)
                  ELSE c.union_size
             b == IF c.right_index < Len(R)
                  THEN a + (Len(R) - c.right_index)
                  ELSE a
         IN [c EXCEPT !.union_size = b]
    ELSE c

\* lines 419-424
MashUnderfull(L, R, s, c) ==
    IF c.union_size < s
    THEN LET a == IF c.left_index < Len(L)
                  THEN c.union_size + (Len(L) - c.left_index)
                  ELSE c.union_size
             b == IF c.right_index < Len(R)
                  THEN a + (Len(R) - c.right_index)
                  ELSE a
         IN [c EXCEPT !.union_size = Min(b, s)]
    ELSE c

\* line 426: the division raises when union_size is 0.
JaccardRaises(c) == c.union_size = 0

\* lines 427-434, after the division succeeded
MashReturn(c, kk) ==
    IF c.intersection_size = c.union_size THEN Zero
    ELSE IF c.intersection_size = 0 THEN One
    ELSE LogDistance(c.intersection_size, c.union_size, kk)

\* lines 403-417 run to the end of the loop
RECURSIVE MashLoop(_, _, _, _)
MashLoop(L, R, s, c) ==
    IF MashWhile(L, R, s, c) THEN MashLoop(L, R, s, MashBody(L, R, c)) ELSE c

\* The counters at the division of line 426.
MashCounters(L, R, s) == MashUnderfull(L, R, s, MashLoop(L, R, s, MashStart))

\* The outcome of a call that raised ZeroDivisionError.
Raised == [tag |-> "ZeroDivisionError", p |-> 0, q |-> 0, k |-> 0]

\* The whole function: the distance it returns, or Raised.
compute_mash_distance(L, R, kk, s) ==
    LET c == MashCounters(L, R, s)
    IN IF JaccardRaises(c) THEN Raised ELSE MashReturn(c, kk)

Counters == [left_index |-> left_index, right_index |-> right_index,
             intersection_size |-> intersection_size, union_size |-> union_size]

SetCounters(c) ==
    /\ left_index' = c.left_index
    /\ right_index' = c.right_index
    /\ intersection_size' = c.intersection_size
    /\ union_size' = c.union_size

InitDist ==
    /\ pc = "mash_loop" /\ exc = ""
    /\ k \in 1..MaxK
    /\ sketch_size \in 1..MaxSketch
    /\ left_sketch \in BottomSketches(sketch_size)
    /\ right_sketch \in BottomSketches(sketch_size)
    /\ left_index = 0 /\ right_index = 0
    /\ intersection_size = 0 /\ union_size = 0
    /\ result = <<>>
    /\ KmersIdle /\ HashIdle /\ SketchIdle /\ AppIdle

\* One iteration of the while loop.
MashLoopStep ==
    /\ pc = "mash_loop"
    /\ MashWhile(left_sketch, right_sketch, sketch_size, Counters)
    /\ SetCounters(MashBody(left_sketch, right_sketch, Counters))
    /\ UNCHANGED <<pc, exc, k, sketch_size, left_sketch, right_sketch, result>>
    /\ UNCHANGED <<kmersVars, hashVars, sketchVars, appVars>>

\* The loop ends; the underfull adjustment runs and control is at the division.
MashLoopExit ==
    /\ pc = "mash_loop"
    /\ ~MashWhile(left_sketch, right_sketch, sketch_size, Counters)
    /\ SetCounters(MashUnderfull(left_sketch, right_sketch, sketch_size, Counters))
    /\ pc' = "mash_jaccard"
    /\ UNCHANGED <<exc, k, sketch_size, left_sketch, right_sketch, result>>
    /\ UNCHANGED <<kmersVars, hashVars, sketchVars, appVars>>

\* The division and the return.
MashJaccard ==
    /\ pc = "mash_jaccard"
    /\ IF JaccardRaises(Counters)
       THEN pc' = "mash_error" /\ exc' = "ZeroDivisionError" /\ result' = result
       ELSE pc' = "mash_done" /\ exc' = exc /\ result' = <<MashReturn(Counters, k)>>
    /\ UNCHANGED <<k, sketch_size, left_sketch, right_sketch, left_index, right_index,
                   intersection_size, union_size>>
    /\ UNCHANGED <<kmersVars, hashVars, sketchVars, appVars>>

NextDist == MashLoopStep \/ MashLoopExit \/ MashJaccard

SpecDist == InitDist /\ [][NextDist]_vars

(***************************************************************************)
(* Properties of compute_mash_distance                                     *)
(***************************************************************************)
MashStates == {"mash_loop", "mash_jaccard", "mash_done", "mash_error"}
MashEnded == pc \in {"mash_done", "mash_error"}

\* The n smallest members of the set S of integers (all of S when it has fewer).
Smallest(S, n) == {x \in S : Cardinality({y \in S : y < x}) < n}

\* C1: compute_mash_distance called with two empty sketches returns the
\* distance 0.0 and does not fail, for every k >= 1 and sketch_size >= 1.
C1_EmptySketchesGiveZero ==
    (MashEnded /\ left_sketch = <<>> /\ right_sketch = <<>>)
        => (pc = "mash_done" /\ result = <<Zero>>)

\* C8: compute_mash_distance is symmetric: the call with the two sketches
\* swapped ends with the same intersection_size and union_size and with the
\* same outcome (the same distance, or the same failure).
C8_MashSymmetric ==
    (pc \in {"mash_jaccard", "mash_done", "mash_error"}) =>
        LET swapped == MashCounters(right_sketch, left_sketch, sketch_size)
        IN /\ intersection_size = swapped.intersection_size
           /\ union_size = swapped.union_size
           /\ (pc = "mash_error") => JaccardRaises(swapped)
           /\ (pc = "mash_done") =>
                 /\ ~JaccardRaises(swapped)
                 /\ result = <<compute_mash_distance(right_sketch, left_sketch,
                                                     k, sketch_size)>>

\* C8 witness: a finished comparison of two different sketches of different
\* lengths that share a value.
C8_Witness ==
    /\ pc = "mash_done"
    /\ Len(left_sketch) < Len(right_sketch)
    /\ intersection_size >= 1
    /\ result # <<Zero>>

\* C10: for sketches of which at least one is non-empty, the cursors stay
\* within their sketches, the division is reached without failure with
\* union_size = min(sketch_size, |A \cup B|) and intersection_size = the
\* number of common values among the union_size smallest values of A \cup B,
\* so 1 <= union_size <= sketch_size and 0 <= intersection_size <= union_size;
\* equal sketches give 0.0 and disjoint sketches give 1.0.
C10_MashCountersMatchSets ==
    (pc \in MashStates /\ (left_sketch # <<>> \/ right_sketch # <<>>)) =>
        LET A == Range(left_sketch)
            B == Range(right_sketch)
        IN /\ left_index \in 0..Len(left_sketch)
           /\ right_index \in 0..Len(right_sketch)
           /\ pc # "mash_error"
           /\ (pc \in {"mash_jaccard", "mash_done"}) =>
                 /\ union_size = Min(sketch_size, Cardinality(A \cup B))
                 /\ intersection_size =
                        Cardinality((A \cap B) \cap Smallest(A \cup B, union_size))
                 /\ 1 <= union_size /\ union_size <= sketch_size
                 /\ 0 <= intersection_size /\ intersection_size <= union_size
                 /\ (left_sketch = right_sketch) => intersection_size = union_size
                 /\ (A \cap B = {}) => intersection_size = 0
           /\ (pc = "mash_done" /\ left_sketch = right_sketch) => result = <<Zero>>
           /\ (pc = "mash_done" /\ A \cap B = {}) => result = <<One>>

\* C10 witness: the division is reached in the underfull case with the cap
\* in effect: the left sketch ran out first, the union of the two sketches
\* is larger than sketch_size, and a common value was counted.
C10_Witness ==
    /\ pc = "mash_jaccard"
    /\ left_index = Len(left_sketch)
    /\ right_index < Len(right_sketch)
    /\ Cardinality(Range(left_sketch) \cup Range(right_sketch)) > sketch_size
    /\ union_size = sketch_size
    /\ intersection_size >= 1

(***************************************************************************)
(* get_kmers                                                               *)
(***************************************************************************)
Symbols == 0..MaxSymbol

\* seq[idx] of lines 315 and 319 raises IndexError past the end of seq.
IndexRaises(s, idx) == idx >= Len(s)

\* line 324: seq[i : i + k]
Window(s, idx, kk) == SubSeq(s, idx + 1, idx + kk)

\* lines 315-316: the body of the first loop.
PrescanBody(s, ns, idx, su) == IF s[idx + 1] >= ns THEN idx + 1 ELSE su

\* A second loop whose boundary is one short: skip_until = i + k - 1.
ScanBoundaryShort(s, kk, ns, idx, su) ==
    IF s[idx + kk] >= ns THEN idx + kk - 1 ELSE su

\* lines 319-320: the boundary after looking at the last symbol of window i.
ScanBoundary(s, kk, ns, idx, su) ==
    IF s[idx + kk] >= ns THEN idx + kk ELSE su

\* lines 322-324: window i is appended unless i < skip_until.
ScanAppend(s, kk, idx, su, out) ==
    IF idx < su THEN out ELSE Append(out, Window(s, idx, kk))

\* lines 314-316 from index idx on; <<>> stands for the IndexError.
RECURSIVE Prescan(_, _, _, _, _)
Prescan(s, kk, ns, idx, su) ==
    IF idx >= kk THEN <<su>>
    ELSE IF IndexRaises(s, idx) THEN <<>>
    ELSE Prescan(s, kk, ns, idx + 1, PrescanBody(s, ns, idx, su))

\* lines 318-324 from index idx on.
RECURSIVE Scan(_, _, _, _, _, _)
Scan(s, kk, ns, idx, su, out) ==
    IF idx >= Len(s) - kk + 1 THEN out
    ELSE LET su2 == ScanBoundary(s, kk, ns, idx, su)
         IN Scan(s, kk, ns, idx + 1, su2, ScanAppend(s, kk, idx, su2, out))

\* The whole function: <<kmers>>, or <<>> when it raises IndexError.
get_kmers(s, kk, ns) ==
    LET pre == Prescan(s, kk, ns, 0, 0)
    IN IF pre = <<>> THEN <<>> ELSE <<Scan(s, kk, ns, 0, pre[1], <<>>)>>

InitKmers ==
    /\ pc = "kmers_prescan" /\ exc = ""
    /\ seq \in SeqsUpTo(Symbols, MaxSeqLen)
    /\ k \in 1..MaxK
    /\ num_states \in 1..(MaxSymbol + 1)
    /\ kmers = <<>> /\ skip_until = 0 /\ i = 0
    /\ sketch_size = 0
    /\ HashIdle /\ SketchIdle /\ DistIdle /\ AppIdle

\* One iteration of `for i in range(k)`, or the IndexError of seq[i].
KmersPrescanStep ==
    /\ pc = "kmers_prescan"
    /\ i < k
    /\ IF IndexRaises(seq, i)
       THEN /\ pc' = "kmers_error" /\ exc' = "IndexError"
            /\ UNCHANGED <<skip_until, i>>
       ELSE /\ skip_until' = PrescanBody(seq, num_states, i, skip_until)
            /\ i' = i + 1
            /\ UNCHANGED <<pc, exc>>
    /\ UNCHANGED <<seq, k, num_states, kmers, sketch_size>>
    /\ UNCHANGED <<hashVars, sketchVars, distVars, appVars>>

\* The first loop is over; the second starts at i = 0.
KmersPrescanEnd ==
    /\ pc = "kmers_prescan"
    /\ i >= k
    /\ pc' = "kmers_scan"
    /\ i' = 0
    /\ UNCHANGED <<exc, seq, k, num_states, kmers, skip_until, sketch_size>>
    /\ UNCHANGED <<hashVars, sketchVars, distVars, appVars>>

\* One iteration of `for i in range(len(seq) - k + 1)`.
KmersScanStep ==
    /\ pc = "kmers_scan"
    /\ i < Len(seq) - k + 1
    /\ skip_until' = ScanBoundary(seq, k, num_states, i, skip_until)
    /\ kmers' = ScanAppend(seq, k, i, skip_until', kmers)
    /\ i' = i + 1
    /\ UNCHANGED <<pc, exc, seq, k, num_states, sketch_size>>
    /\ UNCHANGED <<hashVars, sketchVars, distVars, appVars>>

\* line 325
KmersReturn ==
    /\ pc = "kmers_scan"
    /\ i >= Len(seq) - k + 1
    /\ pc' = "kmers_done"
    /\ UNCHANGED <<exc, seq, k, num_states, kmers, skip_until, i, sketch_size>>
    /\ UNCHANGED <<hashVars, sketchVars, distVars, appVars>>

NextKmers == KmersPrescanStep \/ KmersPrescanEnd \/ KmersScanStep \/ KmersReturn

SpecKmers == InitKmers /\ [][NextKmers]_vars

(***************************************************************************)
(* Properties of get_kmers                                                 *)
(***************************************************************************)
KmersEnded == pc \in {"kmers_done", "kmers_error"}

CleanWindow(s, idx, kk, ns) == \A m \in 1..kk : s[idx + m] < ns

\* The windows of s without an invalid symbol, by increasing start.
RECURSIVE CleanWindowsFrom(_, _, _, _)
CleanWindowsFrom(s, idx, kk, ns) ==
    IF idx > Len(s) - kk THEN <<>>
    ELSE (IF CleanWindow(s, idx, kk, ns) THEN <<Window(s, idx, kk)>> ELSE <<>>)
             \o CleanWindowsFrom(s, idx + 1, kk, ns)

\* C2: get_kmers of a sequence shorter than k (the empty one included)
\* returns an empty list of k-mers without raising.
C2_ShortSequenceGivesNoKmers ==
    (KmersEnded /\ Len(seq) < k) => (pc = "kmers_done" /\ kmers = <<>>)

\* C6: for a sequence of length n >= k >= 1, get_kmers returns exactly the
\* windows seq[i : i+k], i in [0, n-k], whose k symbols are all < num_states,
\* in increasing order of i: no window with an invalid symbol is returned and
\* no clean window is omitted.
C6_KmersAreTheCleanWindows ==
    (KmersEnded /\ Len(seq) >= k) =>
        /\ pc = "kmers_done"
        /\ kmers = CleanWindowsFrom(seq, 0, k, num_states)
        /\ \A n \in 1..Len(kmers) : \A m \in 1..k : kmers[n][m] < num_states

\* C6 witness: a finished run with an invalid symbol inside the first k
\* positions, a window that starts right after an invalid symbol, and both
\* kept and dropped windows.
C6_Witness ==
    /\ pc = "kmers_done"
    /\ k >= 2
    /\ Len(seq) >= k + 2
    /\ seq[1] >= num_states
    /\ kmers # <<>>
    /\ kmers[1] = Window(seq, 1, k)
    /\ Len(kmers) < Len(seq) - k

(***************************************************************************)
(* hash_kmer and reverse_complement                                        *)
(*                                                                         *)
(* hash() of a tuple of ints is CPython's tuple hash: an accumulator that  *)
(* takes in each item by a multiply, a rotation and a multiply, and the    *)
(* length at the end.  The model keeps that shape at a width of HashWidth  *)
(* bits in place of 64, with the low bytes of the three primes; the result *)
(* is the signed value of the accumulator, so hashes collide and can be    *)
(* negative.                                                               *)
(***************************************************************************)
NumDnaStates == 4
ComplementOffset == 2
HashPrime1 == 135
HashPrime2 == 79
HashPrime5 == 197

RECURSIVE Pow2(_)
Pow2(n) == IF n = 0 THEN 1 ELSE 2 * Pow2(n - 1)

HashModulus == Pow2(HashWidth)

\* Rotation to the left by half the width.
Rotl(x) ==
    LET r == HashWidth \div 2
    IN ((x * Pow2(r)) % HashModulus) + (x \div Pow2(HashWidth - r))

RECURSIVE HashAcc(_, _, _)
HashAcc(t, n, acc) ==
    IF n > Len(t) THEN acc
    ELSE HashAcc(t, n + 1,
                 (Rotl((acc + t[n] * HashPrime2) % HashModulus) * HashPrime1) % HashModulus)

\* line 348: hash(tuple_kmer)
PyHash(t) ==
    LET acc == (HashAcc(t, 1, HashPrime5) + Len(t)) % HashModulus
    IN IF acc >= HashModulus \div 2 THEN acc - HashModulus ELSE acc

\* [::-1]
RECURSIVE Reverse(_)
Reverse(s) == IF s = <<>> THEN <<>> ELSE Append(Reverse(Tail(s)), Head(s))

\* line 370: ((kmer + 2) % 4)[::-1]
reverse_complement(x) ==
    Reverse([n \in 1..Len(x) |-> (x[n] + ComplementOffset) % NumDnaStates])

\* a < b for tuples of ints of one length, as Python compares them
RECURSIVE TupleLess(_, _)
TupleLess(a, b) ==
    IF a = <<>> \/ b = <<>> THEN Len(a) < Len(b)
    ELSE IF Head(a) # Head(b) THEN Head(a) < Head(b)
    ELSE TupleLess(Tail(a), Tail(b))

\* line 346: min(reverse, tuple_kmer) returns its first argument on a tie
TupleMin(a, b) == IF TupleLess(b, a) THEN b ELSE a

\* A canonical hash that takes the reverse complement without the min.
hash_kmer_always_reverse(x, canonical) ==
    IF canonical THEN PyHash(reverse_complement(x)) ELSE PyHash(x)

\* lines 343-348
hash_kmer(x, canonical) ==
    IF canonical THEN PyHash(TupleMin(reverse_complement(x), x)) ELSE PyHash(x)

DnaKmers == {x \in SeqsUpTo(0..(NumDnaStates - 1), MaxKmerLen) : Len(x) >= 1}

InitHash ==
    /\ pc = "hash_start" /\ exc = ""
    /\ kmer \in DnaKmers
    /\ mash_canonical \in BOOLEAN
    /\ kmer_hash = 0
    /\ k = Len(kmer)
    /\ sketch_size = 0
    /\ KmersIdle /\ SketchIdle /\ DistIdle /\ AppIdle

HashKmer ==
    /\ pc = "hash_start"
    /\ kmer_hash' = hash_kmer(kmer, mash_canonical)
    /\ pc' = "hash_done"
    /\ UNCHANGED <<exc, k, kmer, mash_canonical, sketch_size>>
    /\ UNCHANGED <<kmersVars, sketchVars, distVars, appVars>>

NextHash == HashKmer

SpecHash == InitHash /\ [][NextHash]_vars

(***************************************************************************)
(* Properties of hash_kmer                                                 *)
(***************************************************************************)
\* The reverse complement as the claim states it: position n of the result
\* is the complement (s + 2) mod 4 of position Len - n + 1.
RevCompl(x) == [n \in 1..Len(x) |-> (x[Len(x) + 1 - n] + 2) % 4]

\* C9: with mash_canonical = True, a k-mer over {0,1,2,3} and its reverse
\* complement have the same hash; reverse_complement is an involution and the
\* hashed tuple is the lexicographic minimum of the two tuples.
C9_CanonicalHashOfReverseComplement ==
    (pc = "hash_done" /\ mash_canonical) =>
        /\ kmer_hash = hash_kmer(RevCompl(kmer), TRUE)
        /\ reverse_complement(kmer) = RevCompl(kmer)
        /\ reverse_complement(reverse_complement(kmer)) = kmer
        /\ \E m \in {kmer, RevCompl(kmer)} :
              /\ kmer_hash = PyHash(m)
              /\ ~TupleLess(kmer, m) /\ ~TupleLess(RevCompl(kmer), m)

\* C9 witness: a hashed k-mer of length >= 2 whose reverse complement is
\* the smaller tuple and hashes, as a plain tuple, to another value.
C9_Witness ==
    /\ pc = "hash_done" /\ mash_canonical
    /\ Len(kmer) >= 2
    /\ TupleLess(RevCompl(kmer), kmer)
    /\ PyHash(kmer) # PyHash(RevCompl(kmer))

(***************************************************************************)
(* mash_sketch                                                             *)
(***************************************************************************)
\* heapq._siftdown(heap, 0, pos) with newitem in hand; positions from 0
RECURSIVE SiftDown(_, _, _)
SiftDown(h, pos, newitem) ==
    IF pos > 0
    THEN LET parentpos == (pos - 1) \div 2
             parent == h[parentpos + 1]
         IN IF newitem < parent
            THEN SiftDown([h EXCEPT ![pos + 1] = parent], parentpos, newitem)
            ELSE [h EXCEPT ![pos + 1] = newitem]
    ELSE [h EXCEPT ![pos + 1] = newitem]

\* line 285: heapq.heappush(heap, item)
heappush(h, item) == SiftDown(Append(h, item), Len(h), item)

\* heapq._siftup(heap, 0): the smaller child moves up until a leaf is hit,
\* then newitem is sifted down from there
RECURSIVE SiftUp(_, _, _)
SiftUp(h, pos, newitem) ==
    LET endpos == Len(h)
        childpos == 2 * pos + 1
        rightpos == childpos + 1
        c == IF rightpos < endpos /\ ~(h[childpos + 1] < h[rightpos + 1])
             THEN rightpos ELSE childpos
    IN IF childpos < endpos
       THEN SiftUp([h EXCEPT ![pos + 1] = h[c + 1]], c, newitem)
       ELSE SiftDown([h EXCEPT ![pos + 1] = newitem], pos, newitem)

\* line 287: heapq.heappushpop(heap, item), the heap it leaves
heappushpop(h, item) ==
    IF h # <<>> /\ h[1] < item THEN SiftUp([h EXCEPT ![1] = item], 0, item) ELSE h

\* A loop body that drops a hash once the heap is full.
SketchBodyDropsWhenFull(h, s, kh) ==
    IF Len(h) < s THEN heappush(h, 0 - kh) ELSE h

\* lines 284-287: the body of the loop over kmer_hashes
SketchBody(h, s, kh) ==
    IF Len(h) < s THEN heappush(h, 0 - kh) ELSE heappushpop(h, 0 - kh)

\* sorted(): insertion of x into the ascending list s
RECURSIVE Insert(_, _)
Insert(s, x) ==
    IF s = <<>> THEN <<x>>
    ELSE IF x <= Head(s) THEN <<x>> \o s
    ELSE <<Head(s)>> \o Insert(Tail(s), x)

RECURSIVE Sorted(_)
Sorted(s) == IF s = <<>> THEN <<>> ELSE Insert(Sorted(Tail(s)), Head(s))

\* line 288: sorted(-kmer_hash for kmer_hash in heap)
SketchResult(h) == Sorted([n \in 1..Len(h) |-> 0 - h[n]])

InitSketch ==
    /\ pc = "sketch_dedup" /\ exc = ""
    /\ hash_stream \in SeqsUpTo(HashVals, MaxStream)
    /\ sketch_size \in 1..MaxSketch
    /\ kmer_hashes = {} /\ heap = <<>> /\ sketch = <<>>
    /\ k = 0
    /\ KmersIdle /\ HashIdle /\ DistIdle /\ AppIdle

\* lines 278-282: the hashes go into a set; the heap starts empty.
SketchDedup ==
    /\ pc = "sketch_dedup"
    /\ kmer_hashes' = Range(hash_stream)
    /\ heap' = <<>>
    /\ pc' = "sketch_loop"
    /\ UNCHANGED <<exc, k, hash_stream, sketch_size, sketch>>
    /\ UNCHANGED <<kmersVars, hashVars, distVars, appVars>>

\* One iteration of the loop; the set yields its members in any order, and
\* kmer_hashes holds those not yet yielded.
SketchLoopStep ==
    /\ pc = "sketch_loop"
    /\ \E kh \in kmer_hashes :
          /\ heap' = SketchBody(heap, sketch_size, kh)
          /\ kmer_hashes' = kmer_hashes \ {kh}
    /\ UNCHANGED <<pc, exc, k, hash_stream, sketch_size, sketch>>
    /\ UNCHANGED <<kmersVars, hashVars, distVars, appVars>>

\* line 288
SketchReturn ==
    /\ pc = "sketch_loop"
    /\ kmer_hashes = {}
    /\ sketch' = SketchResult(heap)
    /\ pc' = "sketch_done"
    /\ UNCHANGED <<exc, k, hash_stream, kmer_hashes, heap, sketch_size>>
    /\ UNCHANGED <<kmersVars, hashVars, distVars, appVars>>

NextSketch == SketchDedup \/ SketchLoopStep \/ SketchReturn

SpecSketch == InitSketch /\ [][NextSketch]_vars

(***************************************************************************)
(* Properties of mash_sketch                                               *)
(***************************************************************************)
\* C7: for every stream of hashes and every sketch_size >= 1, mash_sketch
\* returns a strictly ascending list of length min(sketch_size, number of
\* distinct hashes) whose elements are the sketch_size smallest distinct
\* hashes of the stream.
C7_SketchIsTheSmallestHashes ==
    (pc = "sketch_done") =>
        /\ Len(sketch) = Min(sketch_size, Cardinality(Range(hash_stream)))
        /\ IsAscending(sketch)
        /\ Range(sketch) = Smallest(Range(hash_stream), sketch_size)

\* C7 witness: a finished sketch of a stream with a repeated hash and more
\* distinct hashes than a sketch_size of at least 2, with a negative hash kept.
C7_Witness ==
    /\ pc = "sketch_done"
    /\ sketch_size >= 2
    /\ Cardinality(Range(hash_stream)) > sketch_size
    /\ Len(hash_stream) > Cardinality(Range(hash_stream))
    /\ sketch[1] < 0

(***************************************************************************)
(* dvs_dist: __init__ and main, and the two pairwise loops                 *)
(***************************************************************************)
NumProteinStates == 20

DistanceModes == {"mash", "euclidean", "hamming"}
Moltypes == {"dna", "rna", "protein"}

\* len(_get_canonical_states(moltype)), line 85
NumStates(moltype) ==
    IF moltype \in {"dna", "rna"} THEN NumDnaStates ELSE NumProteinStates

\* The encoded sequences a collection is made of: symbol NumDnaStates is an
\* ambiguous base for dna and rna.
SeqPool == {<<0>>, <<0, 1>>, <<0, 1, 2>>, <<NumDnaStates, NumDnaStates>>}

Collections == SeqsUpTo(SeqPool, MaxSeqs)

\* lines 68-69
CanonicalOrFalse(a) ==
    IF a.mash_canonical_kmers = <<>> THEN FALSE ELSE a.mash_canonical_kmers[1]

\* lines 71-81: the three checks that raise ValueError
InitRaises(a) ==
    \/ a.moltype \notin {"dna", "rna"} /\ CanonicalOrFalse(a)
    \/ a.distance_mode = "mash" /\ a.sketch_size = <<>>
    \/ a.distance_mode # "mash" /\ a.sketch_size # <<>>

\* lines 83-89
InitAttributes(a) ==
    [_moltype |-> a.moltype,
     _k |-> a.k,
     _num_states |-> NumStates(a.moltype),
     _sketch_size |-> a.sketch_size,
     _distance_mode |-> a.distance_mode,
     _mash_canonical |-> CanonicalOrFalse(a),
     _with_progress |-> a.with_progress]

\* Progress(disable=...), add_task(total=...) and update(task, advance=1);
\* a task id is the task's position, from 0.
NewProgress(disable) == [disable |-> disable, tasks |-> <<>>]
AddTask(pr, total) ==
    [pr EXCEPT !.tasks = Append(@, [total |-> total, completed |-> 0])]
Advance(pr, task) == [pr EXCEPT !.tasks[task + 1].completed = @ + 1]
LastTask(pr) == Len(pr.tasks) - 1

\* np.zeros((n, n))
Zeros(n) == [a \in 1..n |-> [b \in 1..n |-> Zero]]

\* A write of the one cell distances[a, b] only.
WriteOneCell(M, a, b, d) == [M EXCEPT ![a + 1][b + 1] = d]

\* lines 187-188 and 471-472
WriteSymmetric(M, a, b, d) == [M EXCEPT ![a + 1][b + 1] = d, ![b + 1][a + 1] = d]

\* lines 283-287 over a whole set; the result does not depend on the order
\* in which the set yields its members (C7), so one order is taken.
RECURSIVE SketchFold(_, _, _)
SketchFold(S, h, sz) ==
    IF S = {} THEN h
    ELSE LET kh == CHOOSE x \in S : TRUE
         IN SketchFold(S \ {kh}, SketchBody(h, sz, kh), sz)

\* The whole mash_sketch: <<sketch>>, or <<>> when get_kmers raises.
mash_sketch(s, kk, sz, ns, canonical) ==
    LET got == get_kmers(s, kk, ns)
    IN IF got = <<>> THEN <<>>
       ELSE LET hashes == {hash_kmer(got[1][n], canonical) : n \in 1..Len(got[1])}
            IN <<SketchResult(SketchFold(hashes, <<>>, sz))>>

\* KmerSeq.kfreqs: the count of each k-mer without an ambiguous symbol, kept
\* as a function from the k-mers that occur to their counts.
kfreqs(s, kk, ns) ==
    LET ws == CleanWindowsFrom(s, 0, kk, ns)
    IN [w \in Range(ws) |-> Cardinality({n \in 1..Len(ws) : ws[n] = w})]

FreqAt(f, w) == IF w \in DOMAIN f THEN f[w] ELSE 0

RECURSIVE SumSquares(_, _, _)
SumSquares(f, g, W) ==
    IF W = {} THEN 0
    ELSE LET w == CHOOSE x \in W : TRUE
             d == FreqAt(f, w) - FreqAt(g, w)
         IN d * d + SumSquares(f, g, W \ {w})

\* line 470: np.sqrt(((freq_i - freq_j) ** 2).sum())
EuclideanDistance(f, g) ==
    LET ss == SumSquares(f, g, DOMAIN f \cup DOMAIN g)
    IN IF ss = 0 THEN Zero ELSE [tag |-> "sqrt", p |-> ss, q |-> 1, k |-> 0]

\* len(x) * (len(x) - 1) // 2
PairCount(n) == (n * (n - 1)) \div 2

calleeVars == <<seq, kmers, skip_until, kmer, kmer_hash,
                hash_stream, kmer_hashes, heap, sketch, distVars>>

Init ==
    /\ pc = "app_init" /\ exc = ""
    /\ args \in [distance_mode : DistanceModes,
                 k : 1..MaxK,
                 sketch_size : {<<>>} \cup {<<n>> : n \in 1..MaxSketch},
                 moltype : Moltypes,
                 mash_canonical_kmers : {<<>>, <<TRUE>>, <<FALSE>>},
                 with_progress : BOOLEAN]
    /\ self = <<>>
    /\ seq_arrays = <<>> /\ sketches = <<>> /\ kmer_seqs = <<>>
    /\ distances = <<>> /\ j = 0
    /\ progress = NoProgress /\ sketch_progress = NoProgress
    /\ computed = <<>>
    /\ k = 0 /\ sketch_size = 0
    /\ KmersIdle /\ HashIdle /\ SketchIdle /\ DistIdle

\* dvs_dist.__init__, lines 68-92
Construct ==
    /\ pc = "app_init"
    /\ IF InitRaises(args)
       THEN pc' = "app_config_error" /\ exc' = "ValueError" /\ self' = self
       ELSE pc' = "app_ready" /\ exc' = exc /\ self' = InitAttributes(args)
    /\ UNCHANGED <<args, seq_arrays, sketches, kmer_seqs, distances, j,
                   progress, sketch_progress, computed>>
    /\ UNCHANGED <<k, sketch_size, num_states, mash_canonical, i, calleeVars>>

\* main, line 98: every sequence of the collection is encoded.
MainEncode ==
    /\ pc = "app_ready"
    /\ \E input \in Collections : seq_arrays' = input
    /\ pc' = "main_dispatch"
    /\ UNCHANGED <<exc, args, self, sketches, kmer_seqs, distances, j,
                   progress, sketch_progress, computed>>
    /\ UNCHANGED <<k, sketch_size, num_states, mash_canonical, i, calleeVars>>

\* main, lines 100-108: the call of compute_mash_distances, up to the loop of
\* mash_sketches (lines 161-170 and 225-233).  mash_sketches is called
\* without `progress`, so it makes its own disabled Progress for its task.
MainMash ==
    /\ pc = "main_dispatch"
    /\ self._distance_mode = "mash"
    /\ k' = self._k
    /\ sketch_size' = self._sketch_size[1]
    /\ num_states' = self._num_states
    /\ mash_canonical' = self._mash_canonical
    /\ progress' = NewProgress(~self._with_progress)
    /\ sketch_progress' = AddTask(NewProgress(TRUE), Len(seq_arrays))
    /\ sketches' = <<>>
    /\ i' = 0
    /\ pc' = "sketch_phase"
    /\ UNCHANGED <<exc, args, self, seq_arrays, kmer_seqs, distances, j, computed>>
    /\ UNCHANGED calleeVars

\* mash_sketches, lines 236-245: one sketch, and one advance of sketch_task.
SketchPhaseStep ==
    /\ pc = "sketch_phase"
    /\ i < Len(seq_arrays)
    /\ LET made == mash_sketch(seq_arrays[i + 1], k, sketch_size, num_states,
                               mash_canonical)
       IN IF made = <<>>
          THEN /\ pc' = "app_error" /\ exc' = "IndexError"
               /\ UNCHANGED <<sketches, sketch_progress, i>>
          ELSE /\ sketches' = Append(sketches, made[1])
               /\ sketch_progress' = Advance(sketch_progress, 0)
               /\ i' = i + 1
               /\ UNCHANGED <<pc, exc>>
    /\ UNCHANGED <<args, self, seq_arrays, kmer_seqs, distances, j, progress, computed>>
    /\ UNCHANGED <<k, sketch_size, num_states, mash_canonical, calleeVars>>

\* mash_sketches returns (line 247); lines 172-177 add the distance task and
\* make the matrix; the pair loop starts at i = 1, j = 0.
SketchPhaseEnd ==
    /\ pc = "sketch_phase"
    /\ i >= Len(seq_arrays)
    /\ progress' = AddTask(progress, PairCount(Len(sketches)))
    /\ distances' = Zeros(Len(sketches))
    /\ i' = 1 /\ j' = 0
    /\ pc' = "mash_pairs"
    /\ UNCHANGED <<exc, args, self, seq_arrays, sketches, kmer_seqs,
                   sketch_progress, computed>>
    /\ UNCHANGED <<k, sketch_size, num_states, mash_canonical, calleeVars>>

\* lines 179-190: one pair (i, j) with j < i.
MashPairStep ==
    /\ pc = "mash_pairs"
    /\ i < Len(sketches)
    /\ LET distance == compute_mash_distance(sketches[i + 1], sketches[j + 1],
                                             k, sketch_size)
       IN IF distance = Raised
          THEN /\ pc' = "app_error" /\ exc' = "ZeroDivisionError"
               /\ UNCHANGED <<distances, progress, computed, i, j>>
          ELSE /\ distances' = WriteSymmetric(distances, i, j, distance)
               /\ progress' = Advance(progress, LastTask(progress))
               /\ computed' = Append(computed, <<i, j>>)
               /\ IF j + 1 < i
                  THEN i' = i /\ j' = j + 1
                  ELSE i' = i + 1 /\ j' = 0
               /\ UNCHANGED <<pc, exc>>
    /\ UNCHANGED <<args, self, seq_arrays, sketches, kmer_seqs, sketch_progress>>
    /\ UNCHANGED <<k, sketch_size, num_states, mash_canonical, calleeVars>>

\* line 192 and line 126
MashPairsEnd ==
    /\ pc = "mash_pairs"
    /\ i >= Len(sketches)
    /\ pc' = "app_done"
    /\ UNCHANGED <<exc, appVars>>
    /\ UNCHANGED <<k, sketch_size, num_states, mash_canonical, i, calleeVars>>

\* main, lines 109-122: the k-mer counts of every sequence, then
\* euclidean_distances up to its loop (lines 457-463; i = 0, j = 1).
MainEuclidean ==
    /\ pc = "main_dispatch"
    /\ self._distance_mode = "euclidean"
    /\ k' = self._k
    /\ num_states' = self._num_states
    /\ kmer_seqs' = [n \in 1..Len(seq_arrays) |->
                        kfreqs(seq_arrays[n], self._k, self._num_states)]
    /\ distances' = Zeros(Len(seq_arrays))
    /\ progress' = AddTask(NewProgress(~self._with_progress),
                           PairCount(Len(seq_arrays)))
    /\ i' = 0 /\ j' = 1
    /\ pc' = "euclid_pairs"
    /\ UNCHANGED <<exc, args, self, seq_arrays, sketches, sketch_progress, computed>>
    /\ UNCHANGED <<sketch_size, mash_canonical, calleeVars>>

\* lines 465-474: one pair (i, j) with i < j.
EuclidPairStep ==
    /\ pc = "euclid_pairs"
    /\ j < Len(kmer_seqs)
    /\ LET distance == EuclideanDistance(kmer_seqs[i + 1], kmer_seqs[j + 1])
       IN /\ distances' = WriteSymmetric(distances, i, j, distance)
          /\ progress' = Advance(progress, LastTask(progress))
          /\ computed' = Append(computed, <<i, j>>)
    /\ IF j + 1 < Len(kmer_seqs)
       THEN i' = i /\ j' = j + 1
       ELSE i' = i + 1 /\ j' = i + 2
    /\ UNCHANGED <<pc, exc, args, self, seq_arrays, sketches, kmer_seqs, sketch_progress>>
    /\ UNCHANGED <<k, sketch_size, num_states, mash_canonical, calleeVars>>

\* line 476 and line 126
EuclidPairsEnd ==
    /\ pc = "euclid_pairs"
    /\ j >= Len(kmer_seqs)
    /\ pc' = "app_done"
    /\ UNCHANGED <<exc, appVars>>
    /\ UNCHANGED <<k, sketch_size, num_states, mash_canonical, i, calleeVars>>

\* main, lines 123-125
MainUnexpected ==
    /\ pc = "main_dispatch"
    /\ self._distance_mode \notin {"mash", "euclidean"}
    /\ pc' = "app_error" /\ exc' = "ValueError"
    /\ UNCHANGED appVars
    /\ UNCHANGED <<k, sketch_size, num_states, mash_canonical, i, calleeVars>>

Next ==
    \/ Construct
    \/ MainEncode
    \/ MainMash
    \/ SketchPhaseStep
    \/ SketchPhaseEnd
    \/ MashPairStep
    \/ MashPairsEnd
    \/ MainEuclidean
    \/ EuclidPairStep
    \/ EuclidPairsEnd
    \/ MainUnexpected

Spec == Init /\ [][Next]_vars

(***************************************************************************)
(* Properties of dvs_dist and the pairwise loops                           *)
(***************************************************************************)
\* The configurations the specification calls invalid.
InvalidConfiguration(a) ==
    \/ a.distance_mode = "mash" /\ a.sketch_size = <<>>
    \/ a.distance_mode = "euclidean" /\ a.sketch_size # <<>>
    \/ a.mash_canonical_kmers = <<TRUE>> /\ a.moltype \notin {"dna", "rna"}
    \/ a.distance_mode \notin {"mash", "euclidean"}

\* C3: constructing dvs_dist with an invalid configuration always raises at
\* construction: main cannot run, no sequence is encoded and no distance is
\* computed.
C3_InvalidConfigurationRaisesAtConstruction ==
    (pc # "app_init" /\ InvalidConfiguration(args)) =>
        /\ pc = "app_config_error"
        /\ self = <<>>
        /\ seq_arrays = <<>>
        /\ computed = <<>>

\* The sinks the caller sees: a Progress made with disable=False.
VisibleTasks(pr) == IF pr.disable THEN <<>> ELSE pr.tasks

\* C4: in a mash run over N sequences with with_progress = True, the sink the
\* caller sees holds a first task of total N advanced N times (one advance
\* per sketch) and then a task of total N*(N-1)/2 advanced once per pair.
C4_VisibleSinkReportsBothPhases ==
    (pc = "app_done" /\ self._distance_mode = "mash" /\ self._with_progress) =>
        LET n == Len(seq_arrays)
        IN \E pr \in {progress, sketch_progress} :
              VisibleTasks(pr) = <<[total |-> n, completed |-> n],
                                   [total |-> PairCount(n),
                                    completed |-> PairCount(n)]>>

\* The artifact of the n-th input sequence, and the distance of two of them.
PairDistance(a, b) ==
    IF self._distance_mode = "mash"
    THEN compute_mash_distance(
             mash_sketch(seq_arrays[a], k, sketch_size, num_states, mash_canonical)[1],
             mash_sketch(seq_arrays[b], k, sketch_size, num_states, mash_canonical)[1],
             k, sketch_size)
    ELSE EuclideanDistance(kfreqs(seq_arrays[a], k, num_states),
                           kfreqs(seq_arrays[b], k, num_states))

\* C5: the matrix returned for N >= 0 sequences, by compute_mash_distances
\* and by euclidean_distances, is N x N with a zero diagonal, is symmetric,
\* and holds in cell (a, b), a # b, the distance of the artifacts of the a-th
\* and b-th input sequences; each unordered pair was computed exactly once.
C5_MatrixIsSymmetricAndComplete ==
    (pc = "app_done") =>
        LET n == Len(seq_arrays)
        IN /\ Len(distances) = n
           /\ \A a \in 1..n : Len(distances[a]) = n /\ distances[a][a] = Zero
           /\ \A a, b \in 1..n : distances[a][b] = distances[b][a]
           /\ \A a, b \in 1..n : a # b => distances[a][b] = PairDistance(a, b)
           /\ Len(computed) = PairCount(n)
           /\ \A a, b \in 0..(n - 1) :
                 a < b => Cardinality({m \in 1..Len(computed) :
                                          computed[m] \in {<<a, b>>, <<b, a>>}}) = 1

\* C5 witness: a returned 3 x 3 matrix, of either mode, whose three pairs
\* have three different distances.
C5_Witness ==
    /\ pc = "app_done"
    /\ Len(distances) = 3
    /\ Cardinality({distances[1][2], distances[1][3], distances[2][3]}) = 3

\* The same, reached in each of the two modes.
C5_WitnessMash == C5_Witness /\ self._distance_mode = "mash"
C5_WitnessEuclidean == C5_Witness /\ self._distance_mode = "euclidean"

====
